---- MODULE Spec2Model ----
(***************************************************************************)
(* Food freshness detector: the model loader (app/models/loader.py), the   *)
(* preprocessing helpers (app/utils/preprocessing.py), the inference       *)
(* pipeline (app/inference/pipeline.py) and the /predict request handler   *)
(* (app/routers/predict.py).                                               *)
(*                                                                         *)
(* Representation.  Python str values that the code transforms (class      *)
(* names, food labels) are sequences of one-character strings, so that     *)
(* str.lower() and str.replace(" ", "_") are computed character by         *)
(* character.  Python float confidences are integers counting millionths   *)
(* (1.0 is 1000000); round(x, n) is round-half-to-even on the exact        *)
(* decimal value.  Python None is the record None.                         *)
(***************************************************************************)
EXTENDS Integers, Sequences, FiniteSets, TLC

VARIABLES
    _bundle,         \* loader.py:34   module-level singleton
    cuda_available,  \* loader.py:53   torch.cuda.is_available() of this host
    pc,              \* per thread: the line of load_models it stands at
    args,            \* per thread: (yolo_path, freshness_path, device_str)
    local,           \* per thread: load_models' locals device, yolo, freshness
    last,            \* per thread: outcome of its last completed call
    yoloLoads,       \* number of executions of _load_yolo
    clsLoads,        \* number of executions of _load_freshness_classifier
    bundlesBuilt,    \* number of ModelBundle instances constructed
    firstBundle,     \* what the first completed load_models call returned
    crop_call,       \* preprocessing.py:62  arguments of a crop_bbox call
    crop_result,     \* the rectangle that call hands to Image.crop
    heur_call,       \* pipeline.py:81-86  mean saturation, mean value, draw
    heur_result,     \* (label, confidence) of that _heuristic_freshness call
    inf_call,        \* pipeline.py:110  image, bundle and what the models do
    inf_result,      \* outcome of that run_inference call
    requests         \* predict.py:55  per request: where predict stands,
                     \* its upload, the calls it made, its response

loaderVars == <<_bundle, cuda_available, pc, args, local, last,
                yoloLoads, clsLoads, bundlesBuilt, firstBundle>>

cropVars == <<crop_call, crop_result>>

heurVars == <<heur_call, heur_result>>

inferVars == <<inf_call, inf_result>>

vars == <<loaderVars, cropVars, heurVars, inferVars, requests>>

\* What the loader's steps leave alone.
notLoaderVars == <<cropVars, heurVars, inferVars, requests>>

-----------------------------------------------------------------------------
(* Bounds of the model.                                                    *)

NumThreads == 2

Threads == 1..NumThreads

\* Largest image side in the crop_bbox specification.
MaxDim == 3

\* Largest number of boxes the detector returns for one image.
MaxDets == 2

\* Number of /predict requests in flight.
NumRequests == 2

Requests == 1..NumRequests

-----------------------------------------------------------------------------
(* Python values.                                                          *)

None == [none |-> TRUE]

UPPER == <<"A","B","C","D","E","F","G","H","I","J","K","L","M",
           "N","O","P","Q","R","S","T","U","V","W","X","Y","Z">>

LOWER == <<"a","b","c","d","e","f","g","h","i","j","k","l","m",
           "n","o","p","q","r","s","t","u","v","w","x","y","z">>

\* The lower-case letter of every upper-case letter.
LOWER_OF ==
    [c \in {UPPER[i] : i \in 1..Len(UPPER)} |->
        LOWER[CHOOSE i \in 1..Len(UPPER) : UPPER[i] = c]]

\* str.lower() on one character.
lower_char(c) == IF c \in DOMAIN LOWER_OF THEN LOWER_OF[c] ELSE c

\* str.lower()
lower(s) == [i \in 1..Len(s) |-> lower_char(s[i])]

\* str.replace(" ", "_")
replace_space(s) == [i \in 1..Len(s) |-> IF s[i] = " " THEN "_" ELSE s[i]]

-----------------------------------------------------------------------------
(* app/models/loader.py                                                    *)

FOOD_LABELS ==
    << 
       <<"a","p","p","l","e">>,
       <<"b","a","n","a","n","a">>,
       <<"o","r","a","n","g","e">>,
       <<"s","t","r","a","w","b","e","r","r","y">>,
       <<"g","r","a","p","e">>,
       <<"m","a","n","g","o">>,
       <<"p","i","n","e","a","p","p","l","e">>,
       <<"w","a","t","e","r","m","e","l","o","n">>,
       <<"l","e","m","o","n">>,
       <<"c","h","e","r","r","y">>,
       <<"c","a","r","r","o","t">>,
       <<"b","r","o","c","c","o","l","i">>,
       <<"t","o","m","a","t","o">>,
       <<"c","u","c","u","m","b","e","r">>,
       <<"l","e","t","t","u","c","e">>,
       <<"p","o","t","a","t","o">>,
       <<"o","n","i","o","n">>,
       <<"p","e","p","p","e","r">>,
       <<"a","v","o","c","a","d","o">>,
       <<"c","o","r","n">>,
       <<"b","r","e","a","d">>,
       <<"c","a","k","e">>,
       <<"s","a","n","d","w","i","c","h">>,
       <<"p","i","z","z","a">>,
       <<"h","o","t","d","o","g">>,
       <<"s","u","s","h","i">>,
       <<"s","t","e","a","k">>,
       <<"c","h","i","c","k","e","n">>,
       <<"f","i","s","h">>,
       <<"e","g","g">> >>

\* The weight files of the host: what Path(p).exists() and torch.load(p)
\* find at each path.  "module" is a pickled FreshnessNet object,
\* "module_no_predict" a pickled torch module of another class (it has no
\* predict method), "checkpoint" a dict
\* holding "state_dict", "dict_no_state_dict" a dict without that key,
\* "incompatible" a dict whose state_dict does not fit FreshnessNet,
\* "corrupt" a file torch.load cannot read.
FileKind(path) ==
    CASE path = "weights/yolov8n.pt"              -> "yolo"
      [] path = "weights/custom_yolo.pt"          -> "yolo"
      [] path = "weights/freshness_classifier.pt" -> "checkpoint"
      [] path = "weights/freshness_model.pt"      -> "module"
      [] path = "weights/plain_module.pt"         -> "module_no_predict"
      [] path = "weights/no_state_dict.pt"        -> "dict_no_state_dict"
      [] path = "weights/incompatible.pt"         -> "incompatible"
      [] path = "weights/corrupt.pt"              -> "corrupt"
      [] OTHER                                    -> "absent"

\* Path(p).exists()
exists(path) == FileKind(path) # "absent"

\* The (yolo_path, freshness_path, device_str) triples callers pass.
LoadArgs ==
    { <<"weights/yolov8n.pt",     "weights/freshness_classifier.pt", "cpu">>,
      <<"weights/custom_yolo.pt", "weights/missing.pt",              "cuda">>,
      <<"weights/missing_yolo.pt", "weights/plain_module.pt",        "cuda">>,
      <<"weights/yolov8n.pt",     "weights/freshness_model.pt",      "cpu">> }

\* loader.py:51-56
_resolve_device(device_str, cuda) ==
    IF device_str = "cuda" /\ ~cuda THEN "cpu" ELSE device_str

\* Class vocabularies (model.names) of the detector weights: the pretrained
\* COCO vocabulary, restricted to the class ids the model draws, and the
\* vocabulary of a custom-trained detector.
COCO_NAMES ==
    (0 :> <<"p","e","r","s","o","n">>) @@
    (46 :> <<"b","a","n","a","n","a">>) @@
    (52 :> <<"h","o","t"," ","d","o","g">>)

CUSTOM_NAMES ==
    (0 :> <<"A","p","p","l","e">>) @@
    (52 :> <<"H","o","t"," ","D","o","g">>)

yolo_names(weights) ==
    IF weights = "weights/custom_yolo.pt" THEN CUSTOM_NAMES ELSE COCO_NAMES

\* loader.py:59-77: the detector handle, bound to the device.
_load_yolo(weights_path, device) ==
    LET weights == IF exists(weights_path) THEN weights_path ELSE "yolov8n.pt"
    IN  [weights |-> weights, names |-> yolo_names(weights), device |-> device]

\* loader.py:100-114: the body of the try, [raised, ret]: the handle it
\* returns, or the exception torch.load (100), model["state_dict"] and
\* load_state_dict (105) or model.to (111) raises.
try_load_classifier(weights_path, device) ==
    LET kind == FileKind(weights_path) IN
    IF kind = "corrupt"
    THEN [raised |-> "UnpicklingError", ret |-> None]        \* 100
    ELSE IF kind = "dict_no_state_dict"
    THEN [raised |-> "KeyError", ret |-> None]               \* 105
    ELSE IF kind = "incompatible"
    THEN [raised |-> "RuntimeError", ret |-> None]           \* 105
    ELSE IF kind = "checkpoint"
    THEN [raised |-> "",
          ret |-> [weights |-> weights_path, has_predict |-> TRUE,
                   device |-> device, training |-> FALSE]]   \* 103-109
    ELSE IF kind \in {"module", "module_no_predict"}
    THEN [raised |-> "",
          ret |-> [weights |-> weights_path, has_predict |-> kind = "module",
                   device |-> device, training |-> FALSE]]   \* 111-114
    ELSE [raised |-> "AttributeError", ret |-> None]         \* 111

\* Mutation of is_Exception: the handler catches RuntimeError only.
is_Exception_runtime_only(exc) == exc = "RuntimeError"

\* loader.py:115: "except Exception" catches every exception the body of the
\* try raises.
is_Exception(exc) ==
    exc \in {"UnpicklingError", "KeyError", "RuntimeError", "AttributeError"}

\* loader.py:80-117: the classifier handle, or None; an exception that line
\* 115 does not catch leaves the function, written [raised |-> exc].
_load_freshness_classifier(weights_path, device) ==
    IF ~exists(weights_path) THEN None                       \* 91-97
    ELSE LET r == try_load_classifier(weights_path, device) IN
         IF r.raised = "" THEN r.ret
         ELSE IF is_Exception(r.raised) THEN None            \* 115-117
         ELSE [raised |-> r.raised]

\* loader.py:24-31, 135-140: a ModelBundle instance; id is its identity.
ModelBundle(id, yolo, freshness, device) ==
    [id                   |-> id,
     yolo                 |-> yolo,
     freshness_classifier |-> freshness,
     device               |-> device,
     food_labels          |-> FOOD_LABELS,
     freshness_labels     |-> <<"fresh", "semi-fresh", "spoiled">>]

\* loader.py:129-140: the bundle a first load_models(a) builds on a host
\* where torch.cuda.is_available() is cuda.
build_bundle(a, cuda) ==
    LET device == _resolve_device(a[3], cuda) IN
    ModelBundle(1, _load_yolo(a[1], device),
                _load_freshness_classifier(a[2], device), device)

\* Mutation of is_cached: the cache test never succeeds.
is_cached_never(b) == FALSE

\* loader.py:126: the cache test "if _bundle is not None".
is_cached(b) == b # None

NoLocal == [device |-> "", yolo |-> None, freshness |-> None]

\* last[t]: the call (op, args), whether a load_models call had already
\* completed when it ran (initialised), what it raised or returned, and the
\* cached value it left (cached).
NoCall == [op |-> "none", args |-> <<>>, initialised |-> FALSE, raised |-> "",
           ret |-> None, cached |-> None]

\* A caller enters load_models (loader.py:120).
LoadCall(t, a) ==
    /\ pc[t] = "idle"
    /\ pc' = [pc EXCEPT ![t] = "lm_check"]
    /\ args' = [args EXCEPT ![t] = a]
    /\ local' = [local EXCEPT ![t] = NoLocal]
    /\ UNCHANGED <<_bundle, cuda_available, last, yoloLoads, clsLoads,
                   bundlesBuilt, firstBundle>>
    /\ UNCHANGED notLoaderVars

\* loader.py:126
LoadCheck(t) ==
    /\ pc[t] = "lm_check"
    /\ pc' = [pc EXCEPT ![t] = IF is_cached(_bundle) THEN "lm_hit" ELSE "lm_yolo"]
    /\ UNCHANGED <<_bundle, cuda_available, args, local, last, yoloLoads,
                   clsLoads, bundlesBuilt, firstBundle>>
    /\ UNCHANGED notLoaderVars

\* What a completed load_models call leaves behind.
LoadDone(t, value) ==
    /\ pc' = [pc EXCEPT ![t] = "idle"]
    /\ args' = [args EXCEPT ![t] = <<>>]
    /\ local' = [local EXCEPT ![t] = NoLocal]
    /\ _bundle' = _bundle
    /\ last' = [last EXCEPT ![t] =
                  [op |-> "load_models", args |-> args[t],
                   initialised |-> firstBundle # None, raised |-> "",
                   ret |-> value, cached |-> _bundle']]
    /\ firstBundle' = IF firstBundle = None THEN value ELSE firstBundle

\* loader.py:127
LoadHit(t) ==
    /\ pc[t] = "lm_hit"
    /\ LoadDone(t, _bundle)
    /\ UNCHANGED <<cuda_available, yoloLoads, clsLoads, bundlesBuilt>>
    /\ UNCHANGED notLoaderVars

\* loader.py:129-132
LoadYolo(t) ==
    /\ pc[t] = "lm_yolo"
    /\ LET device == _resolve_device(args[t][3], cuda_available) IN
       local' = [local EXCEPT ![t].device = device,
                              ![t].yolo = _load_yolo(args[t][1], device)]
    /\ yoloLoads' = yoloLoads + 1
    /\ pc' = [pc EXCEPT ![t] = "lm_fresh"]
    /\ UNCHANGED <<_bundle, cuda_available, args, last, clsLoads,
                   bundlesBuilt, firstBundle>>
    /\ UNCHANGED notLoaderVars

\* loader.py:133: an exception leaving _load_freshness_classifier leaves
\* load_models too, before the assignment of line 135.
LoadFreshness(t) ==
    /\ pc[t] = "lm_fresh"
    /\ clsLoads' = clsLoads + 1
    /\ LET f == _load_freshness_classifier(args[t][2], local[t].device) IN
       IF "raised" \in DOMAIN f
       THEN /\ pc' = [pc EXCEPT ![t] = "idle"]
            /\ args' = [args EXCEPT ![t] = <<>>]
            /\ local' = [local EXCEPT ![t] = NoLocal]
            /\ last' = [last EXCEPT ![t] =
                          [op |-> "load_models", args |-> args[t],
                           initialised |-> firstBundle # None,
                           raised |-> f.raised, ret |-> None,
                           cached |-> _bundle]]
       ELSE /\ pc' = [pc EXCEPT ![t] = "lm_assign"]
            /\ local' = [local EXCEPT ![t].freshness = f]
            /\ UNCHANGED <<args, last>>
    /\ UNCHANGED <<_bundle, cuda_available, yoloLoads, bundlesBuilt,
                   firstBundle>>
    /\ UNCHANGED notLoaderVars

\* loader.py:135-140
LoadAssign(t) ==
    /\ pc[t] = "lm_assign"
    /\ _bundle' = ModelBundle(bundlesBuilt + 1, local[t].yolo,
                              local[t].freshness, local[t].device)
    /\ bundlesBuilt' = bundlesBuilt + 1
    /\ pc' = [pc EXCEPT ![t] = "lm_return"]
    /\ UNCHANGED <<cuda_available, args, local, last, yoloLoads, clsLoads,
                   firstBundle>>
    /\ UNCHANGED notLoaderVars

\* loader.py:142
LoadReturn(t) ==
    /\ pc[t] = "lm_return"
    /\ LoadDone(t, _bundle)
    /\ UNCHANGED <<cuda_available, yoloLoads, clsLoads, bundlesBuilt>>
    /\ UNCHANGED notLoaderVars

\* Mutation of get_bundle: the None test is missing.
get_bundle_unchecked(b) == [raised |-> "", ret |-> b]

\* loader.py:145-149: [raised, ret] of get_bundle on the cached value b.
get_bundle(b) ==
    IF b = None
    THEN [raised |-> "RuntimeError", ret |-> None]
    ELSE [raised |-> "", ret |-> b]

\* A caller runs get_bundle.
GetBundle(t) ==
    /\ pc[t] = "idle"
    /\ _bundle' = _bundle
    /\ LET r == get_bundle(_bundle) IN
       last' = [last EXCEPT ![t] =
                  [op |-> "get_bundle", args |-> <<>>,
                   initialised |-> firstBundle # None, raised |-> r.raised,
                   ret |-> r.ret, cached |-> _bundle']]
    /\ UNCHANGED <<cuda_available, pc, args, local, yoloLoads, clsLoads,
                   bundlesBuilt, firstBundle>>
    /\ UNCHANGED notLoaderVars

LoaderInit ==
    /\ _bundle = None
    /\ cuda_available \in BOOLEAN
    /\ pc = [t \in Threads |-> "idle"]
    /\ args = [t \in Threads |-> <<>>]
    /\ local = [t \in Threads |-> NoLocal]
    /\ last = [t \in Threads |-> NoCall]
    /\ yoloLoads = 0
    /\ clsLoads = 0
    /\ bundlesBuilt = 0
    /\ firstBundle = None

\* The loader before any call, on a host without CUDA.
LoaderIdle == LoaderInit /\ ~cuda_available

LoadStep(t) ==
    \/ LoadCheck(t)
    \/ LoadHit(t)
    \/ LoadYolo(t)
    \/ LoadFreshness(t)
    \/ LoadAssign(t)
    \/ LoadReturn(t)

\* Callers on any number of threads, interleaved at every line.
Init ==
    /\ LoaderInit
    /\ crop_call = None /\ crop_result = None
    /\ heur_call = None /\ heur_result = None
    /\ inf_call = None /\ inf_result = None
    /\ requests = <<>>

Next ==
    \E t \in Threads :
        \/ \E a \in LoadArgs : LoadCall(t, a)
        \/ LoadStep(t)
        \/ GetBundle(t)

Spec == Init /\ [][Next]_vars

\* One caller at a time: a call starts only when no other call is in progress.
NoCallInProgress == \A u \in Threads : pc[u] = "idle"

NextSeq ==
    \E t \in Threads :
        \/ \E a \in LoadArgs : NoCallInProgress /\ LoadCall(t, a)
        \/ LoadStep(t)
        \/ NoCallInProgress /\ GetBundle(t)

SpecSeq == Init /\ [][NextSeq]_vars

-----------------------------------------------------------------------------
(* Claims about the loader.                                                *)

\* The bundle load_models would build from the arguments a on this host.
BundleFor(a) == build_bundle(a, cuda_available)

\* C1 (under SpecSeq, one call at a time): once a load_models call has
\* completed, every completed load_models call has returned the bundle the
\* first one returned, that bundle is still the cached one, and the detector
\* load, the classifier load and the bundle construction have each run
\* exactly once.
C1_LoaderIdempotent ==
    /\ \A t \in Threads :
          last[t].op = "load_models" =>
            /\ last[t].raised = ""
            /\ last[t].ret = firstBundle
            /\ last[t].cached = firstBundle
    /\ firstBundle # None =>
          /\ _bundle = firstBundle
          /\ yoloLoads = 1
          /\ clsLoads = 1
          /\ bundlesBuilt = 1

\* C1 witness: a load_models call made after initialisation, with arguments
\* that would have built a different bundle, returned the cached one.
C1_Witness ==
    \E t \in Threads :
        /\ last[t].op = "load_models"
        /\ last[t].initialised
        /\ last[t].ret = firstBundle
        /\ BundleFor(last[t].args) # firstBundle

\* C2 (under Spec, calls interleaved): the detector load, the classifier load
\* and the bundle construction each run at most once, the cached bundle is
\* the first one built, and all callers were returned the same bundle.
C2_SingleInitialisation ==
    /\ yoloLoads <= 1
    /\ clsLoads <= 1
    /\ bundlesBuilt <= 1
    /\ _bundle # None => _bundle.id = 1
    /\ \A t, u \in Threads :
          (last[t].op = "load_models" /\ last[u].op = "load_models")
            => last[t].ret = last[u].ret

\* C3 (under SpecSeq): a get_bundle call made before any load_models call
\* completed raised RuntimeError, returned nothing and left the cache empty;
\* one made afterwards raised nothing and returned the bundle load_models
\* cached.
C3_GetBundle ==
    \A t \in Threads :
        last[t].op = "get_bundle" =>
            IF last[t].initialised
            THEN /\ last[t].raised = ""
                 /\ last[t].ret = firstBundle
                 /\ last[t].ret = last[t].cached
                 /\ firstBundle # None
            ELSE /\ last[t].raised = "RuntimeError"
                 /\ last[t].ret = None
                 /\ last[t].cached = None

\* C3 witness: one get_bundle call failed before initialisation and another
\* succeeded after it.
C3_Witness ==
    \E t, u \in Threads :
        /\ last[t].op = "get_bundle" /\ last[t].raised = "RuntimeError"
        /\ last[u].op = "get_bundle" /\ last[u].raised = ""
        /\ last[u].ret = _bundle /\ _bundle # None

-----------------------------------------------------------------------------
(* Python numbers.                                                         *)

\* One pixel, in the unit of crop rectangles (hundredths of a pixel).
PX == 100

\* One grey level, in the unit of channel means (tenths of a level).
LEVEL == 10

\* Confidence 1.0, in the unit of confidences (millionths).
ONE == 1000000

max2(a, b) == IF a >= b THEN a ELSE b

min2(a, b) == IF a <= b THEN a ELSE b

\* The integer nearest to n / d (d > 0), a tie going to the even one.
round_half_even(n, d) ==
    LET q == n \div d
        r == n % d
    IN  IF 2 * r < d THEN q
        ELSE IF 2 * r > d THEN q + 1
        ELSE IF q % 2 = 0 THEN q ELSE q + 1

\* round(x, ndigits) for x = num / den millionths; the result in millionths.
\* (On a float whose decimal value is an exact tie the binary value decides
\* the direction; this model takes the even neighbour.)
py_round(num, den, ndigits) ==
    LET unit == 10 ^ (6 - ndigits)
    IN  unit * round_half_even(num, den * unit)

-----------------------------------------------------------------------------
(* app/utils/preprocessing.py                                              *)

\* preprocessing.py:74-82: the rectangle (left, upper, right, lower) that
\* crop_bbox hands to Image.crop, in hundredths of a pixel.  box holds pixel
\* coordinates, padding_pct is 100 * padding.
crop_bbox(image, box, padding_pct) ==
    LET w == image.w
        h == image.h
        pad_x == (box[3] - box[1]) * padding_pct
        pad_y == (box[4] - box[2]) * padding_pct
    IN  << max2(0, PX * box[1] - pad_x),
           max2(0, PX * box[2] - pad_y),
           min2(PX * w, PX * box[3] + pad_x),
           min2(PX * h, PX * box[4] + pad_y) >>

\* Image sizes and box coordinates of the crop_bbox specification: boxes
\* inside, on and beyond the edges, degenerate and inverted ones included.
CropImages == [w : 1..MaxDim, h : 1..MaxDim]

CropCoords == (-1)..(MaxDim + 1)

CropBoxes == CropCoords \X CropCoords \X CropCoords \X CropCoords

InitCrop ==
    /\ LoaderIdle
    /\ crop_call \in [image : CropImages, box : CropBoxes, padding_pct : {5}]
    /\ crop_result = None
    /\ heur_call = None /\ heur_result = None
    /\ inf_call = None /\ inf_result = None
    /\ requests = <<>>

\* One call crop_bbox(image, box, padding=0.05).
CropBBox ==
    /\ crop_result = None
    /\ crop_result' = crop_bbox(crop_call.image, crop_call.box,
                                crop_call.padding_pct)
    /\ UNCHANGED <<crop_call, loaderVars, heurVars, inferVars, requests>>

SpecCrop == InitCrop /\ [][CropBBox]_vars

\* C9 (under SpecCrop): the rectangle crop_bbox produces lies within the
\* image and is not empty: 0 <= left < right <= w and 0 <= upper < lower <= h.
C9_CropWithinImage ==
    crop_result # None =>
        /\ 0 <= crop_result[1]
        /\ crop_result[1] < crop_result[3]
        /\ crop_result[3] <= PX * crop_call.image.w
        /\ 0 <= crop_result[2]
        /\ crop_result[2] < crop_result[4]
        /\ crop_result[4] <= PX * crop_call.image.h

-----------------------------------------------------------------------------
(* app/inference/pipeline.py: the heuristic estimator                      *)

\* pipeline.py:86: upper end of random.uniform(0.0, 0.20), in millionths.
UNIFORM_MAX == 200000

\* Mutation of _heuristic_freshness: the saturation test admits 80 itself.
_heuristic_freshness_ge(saturation, value, draw) ==
    IF saturation >= 80 * LEVEL /\ 60 * LEVEL < value /\ value < 220 * LEVEL
    THEN [label |-> "fresh", conf |-> py_round(750000 + draw, 1, 2)]
    ELSE IF saturation > 40 * LEVEL
    THEN [label |-> "semi-fresh", conf |-> py_round(550000 + draw, 1, 2)]
    ELSE [label |-> "spoiled", conf |-> py_round(600000 + draw, 1, 2)]

\* pipeline.py:81-90: saturation and value are the HSV channel means of the
\* enhanced crop (tenths of a level), draw is what random.uniform returns.
_heuristic_freshness(saturation, value, draw) ==
    IF saturation > 80 * LEVEL /\ 60 * LEVEL < value /\ value < 220 * LEVEL
    THEN [label |-> "fresh", conf |-> py_round(750000 + draw, 1, 2)]
    ELSE IF saturation > 40 * LEVEL
    THEN [label |-> "semi-fresh", conf |-> py_round(550000 + draw, 1, 2)]
    ELSE [label |-> "spoiled", conf |-> py_round(600000 + draw, 1, 2)]

\* Channel means at, next to and away from the rule's thresholds.
MeanSamples ==
    {0, 200, 399, 400, 401, 599, 600, 601, 799, 800, 801, 1400, 1500,
     2199, 2200, 2201, 2550}

\* Draws of random.uniform(0.0, 0.20): the ends, rounding ties and neighbours.
Draws ==
    {0, 1, 4999, 5000, 5001, 15000, 100000, 194999, 195000, 199999,
     UNIFORM_MAX}

InitHeur ==
    /\ LoaderIdle
    /\ crop_call = None /\ crop_result = None
    /\ heur_call \in [saturation : MeanSamples, value : MeanSamples,
                      draw : Draws]
    /\ heur_result = None
    /\ inf_call = None /\ inf_result = None
    /\ requests = <<>>

\* One call of _heuristic_freshness.
HeuristicFreshness ==
    /\ heur_result = None
    /\ heur_result' = _heuristic_freshness(heur_call.saturation,
                                           heur_call.value, heur_call.draw)
    /\ UNCHANGED <<heur_call, loaderVars, cropVars, inferVars, requests>>

SpecHeur == InitHeur /\ [][HeuristicFreshness]_vars

-----------------------------------------------------------------------------
(* app/inference/pipeline.py: run_inference                                *)

\* pipeline.py:43-46
COCO_FOOD_CLASSES == 46..61

\* pipeline.py:147: the least confidence of a detection, 0.10 in millionths.
MIN_DETECTION_CONF == 100000

unknown == <<"u","n","k","n","o","w","n">>

\* pipeline.py:133: bundle.yolo.names.get(cls_id, "food")
names_get(names, cls_id) ==
    IF cls_id \in DOMAIN names THEN names[cls_id] ELSE <<"f","o","o","d">>

\* Mutation of is_food: the class name is compared with the food labels
\* without lower-casing either.
is_food_case_sensitive(cls_id, name, bundle) ==
    \/ cls_id \in COCO_FOOD_CLASSES
    \/ name \in {bundle.food_labels[i] : i \in 1..Len(bundle.food_labels)}

\* pipeline.py:136-138: the test that keeps a box (the negation of the
\* condition of the continue).
is_food(cls_id, name, bundle) ==
    \/ cls_id \in COCO_FOOD_CLASSES
    \/ lower(name) \in {lower(bundle.food_labels[i]) :
                          i \in 1..Len(bundle.food_labels)}

\* Mutation of beats: a later box of equal confidence replaces the best.
beats_or_ties(conf, best_conf) == conf >= best_conf

\* pipeline.py:141
beats(conf, best_conf) == conf > best_conf

\* pipeline.py:124-126
NoBest == [best_box |-> None, best_conf |-> 0, best_label |-> unknown]

\* pipeline.py:130-144: the loop over the boxes, from the i-th on.
RECURSIVE scan_boxes(_, _, _, _)
scan_boxes(boxes, i, bundle, best) ==
    IF i > Len(boxes) THEN best
    ELSE LET box == boxes[i]
             name == names_get(bundle.yolo.names, box.cls)
         IN  IF ~is_food(box.cls, name, bundle)
             THEN scan_boxes(boxes, i + 1, bundle, best)
             ELSE IF beats(box.conf, best.best_conf)
             THEN scan_boxes(boxes, i + 1, bundle,
                             [best_box   |-> box.xyxy,
                              best_conf  |-> box.conf,
                              best_label |-> replace_space(lower(name))])
             ELSE scan_boxes(boxes, i + 1, bundle, best)

\* Mutation of not_detected: a confidence of exactly 0.10 is rejected too.
not_detected_inclusive(best) ==
    best.best_box = None \/ best.best_conf <= MIN_DETECTION_CONF

\* pipeline.py:147
not_detected(best) ==
    best.best_box = None \/ best.best_conf < MIN_DETECTION_CONF

\* pipeline.py:93-103: [raised, label, conf, calls].  predict is what
\* freshness_classifier.predict does on the crop's tensor, stats and draw are
\* the crop's channel means and the draw of random.uniform.
_classify_freshness(bundle, world) ==
    IF bundle.freshness_classifier # None
    THEN IF ~bundle.freshness_classifier.has_predict
         THEN [raised |-> "AttributeError", label |-> "", conf |-> 0,
               calls |-> <<"to_freshness_tensor">>]
         ELSE IF world.predict.raised # ""
         THEN [raised |-> world.predict.raised, label |-> "", conf |-> 0,
               calls |-> <<"to_freshness_tensor", "predict">>]
         ELSE IF world.predict.idx >= Len(bundle.freshness_labels)
         THEN [raised |-> "IndexError", label |-> "", conf |-> 0,
               calls |-> <<"to_freshness_tensor", "predict">>]
         ELSE [raised |-> "",
               label  |-> bundle.freshness_labels[world.predict.idx + 1],
               conf   |-> py_round(world.predict.conf, 1, 4),
               calls  |-> <<"to_freshness_tensor", "predict">>]
    ELSE LET h == _heuristic_freshness(world.stats.saturation,
                                       world.stats.value, world.draw)
         IN  [raised |-> "", label |-> h.label, conf |-> h.conf,
              calls |-> <<"_heuristic_freshness">>]

\* Mutation of combined_conf: the two weights are exchanged.
combined_conf_swapped(best_conf, freshness_conf) ==
    py_round(best_conf * 6 + freshness_conf * 4, 10, 4)

\* pipeline.py:161
combined_conf(best_conf, freshness_conf) ==
    py_round(best_conf * 4 + freshness_conf * 6, 10, 4)

\* pipeline.py:49-55
PredictionResult(food, freshness, confidence, detected, bbox) ==
    [food |-> food, freshness |-> freshness, confidence |-> confidence,
     detected |-> detected, bbox |-> bbox]

\* pipeline.py:110-174: [raised, result, calls, crop, info] of
\* run_inference(image, bundle).  world.detector is what bundle.yolo(image)
\* does; calls lists the model and helper calls made, in order; info holds
\* the values of the logger.info call at lines 163-166.
run_inference(image, bundle, world) ==
    IF world.detector.raised # ""
    THEN [raised |-> world.detector.raised, result |-> None,
          calls |-> <<"yolo">>, crop |-> None, info |-> None]
    ELSE
    LET results == world.detector.results
        best == IF Len(results) > 0 /\ Len(results[1].boxes) > 0
                THEN scan_boxes(results[1].boxes, 1, bundle, NoBest)
                ELSE NoBest
    IN  IF not_detected(best)
        THEN [raised |-> "",
              result |-> PredictionResult(unknown, "unknown", 0, FALSE, None),
              calls  |-> <<"yolo">>, crop |-> None, info |-> None]
        ELSE
        LET crop == crop_bbox(image, best.best_box, 5)
            fr == _classify_freshness(bundle, world)
        IN  IF fr.raised # ""
            THEN [raised |-> fr.raised, result |-> None,
                  calls |-> <<"yolo", "crop_bbox">> \o fr.calls,
                  crop |-> crop, info |-> None]
            ELSE [raised |-> "",
                  result |-> PredictionResult(
                                 best.best_label, fr.label,
                                 combined_conf(best.best_conf, fr.conf),
                                 TRUE, best.best_box),
                  calls  |-> <<"yolo", "crop_bbox">> \o fr.calls,
                  crop   |-> crop,
                  info   |-> [det_conf |-> best.best_conf,
                              cls_conf |-> fr.conf]]

\* The image run_inference is given (only its size matters to the model).
InferImage == [w |-> 640, h |-> 480]

\* What the detector reports: class ids inside and outside COCO_FOOD_CLASSES,
\* confidences at, below and above the detection threshold; the i-th box of
\* a result lies at BoxAt(i), so no two boxes of a result coincide.
ClassIds == {0, 46, 52}

ConfSamples == {0, 99999, MIN_DETECTION_CONF, 876543, ONE}

BoxAt(i) == <<40 + 50 * i, 120, 240 + 50 * i, 400 + i>>

BoxLists ==
    UNION { { [i \in 1..n |-> [cls |-> c[i][1], conf |-> c[i][2],
                               xyxy |-> BoxAt(i)]] :
              c \in [1..n -> ClassIds \X ConfSamples] } : n \in 0..MaxDets }

\* bundle.yolo(image, verbose=False): it raises, returns no Results, or
\* returns one Results object with its boxes.
DetectorOutcomes ==
    {[raised |-> e, results |-> <<>>] : e \in {"RuntimeError", "ValueError"}}
    \cup {[raised |-> "", results |-> <<>>]}
    \cup {[raised |-> "", results |-> <<[boxes |-> b]>>] : b \in BoxLists}

\* freshness_classifier.predict(tensor): it raises, or returns the argmax
\* index and its softmax probability (a pickled model of another shape may
\* have more than three classes).
NoPredict == [raised |-> "", idx |-> 0, conf |-> 0]

PredictOutcomes ==
    { [raised |-> "RuntimeError", idx |-> 0, conf |-> 0],
      [raised |-> "", idx |-> 0, conf |-> ONE],
      [raised |-> "", idx |-> 2, conf |-> 333349],
      [raised |-> "", idx |-> 3, conf |-> 500000] }

\* Channel means of the crop and the draw of random.uniform.
NoStats == [saturation |-> 0, value |-> 0]

StatSamples ==
    { [saturation |-> 1500, value |-> 1400],
      [saturation |-> 500, value |-> 1000],
      [saturation |-> 200, value |-> 2400] }

\* What the models and the random generator do during one run_inference call
\* on the bundle: the parts the call cannot reach are fixed.
WorldsOver(bundle, detectors) ==
    LET trained == bundle.freshness_classifier # None
                   /\ bundle.freshness_classifier.has_predict
        heuristic == bundle.freshness_classifier = None
    IN  [detector : detectors,
         predict  : IF trained THEN PredictOutcomes ELSE {NoPredict},
         stats    : IF heuristic THEN StatSamples ELSE {NoStats},
         draw     : IF heuristic THEN {UNIFORM_MAX} ELSE {0}]

Worlds(bundle) == WorldsOver(bundle, DetectorOutcomes)

\* The bundles load_models builds from LoadArgs.
Bundles == {build_bundle(a, FALSE) : a \in LoadArgs}

InitInfer ==
    /\ LoaderIdle
    /\ crop_call = None /\ crop_result = None
    /\ heur_call = None /\ heur_result = None
    /\ \E b \in Bundles : \E wd \in Worlds(b) :
          inf_call = [image |-> InferImage, bundle |-> b, world |-> wd]
    /\ inf_result = None
    /\ requests = <<>>

\* One call run_inference(image, bundle).
RunInference ==
    /\ inf_result = None
    /\ inf_result' = run_inference(inf_call.image, inf_call.bundle,
                                   inf_call.world)
    /\ UNCHANGED <<inf_call, loaderVars, cropVars, heurVars, requests>>

SpecInfer == InitInfer /\ [][RunInference]_vars

-----------------------------------------------------------------------------
(* Claims about run_inference (under SpecInfer).                           *)

\* The boxes the detector returned to the call.
InfBoxes ==
    IF inf_call.world.detector.raised = ""
       /\ Len(inf_call.world.detector.results) > 0
    THEN inf_call.world.detector.results[1].boxes
    ELSE <<>>

\* The boxes that pass the food filter.
Surviving ==
    {i \in 1..Len(InfBoxes) :
        is_food(InfBoxes[i].cls,
                names_get(inf_call.bundle.yolo.names, InfBoxes[i].cls),
                inf_call.bundle)}

\* The first of the surviving boxes of highest confidence.
Winner ==
    LET S == Surviving IN
    CHOOSE i \in S :
        /\ \A j \in S : InfBoxes[j].conf <= InfBoxes[i].conf
        /\ \A j \in S : InfBoxes[j].conf = InfBoxes[i].conf => i <= j

EstimatorCalls == {"to_freshness_tensor", "predict", "_heuristic_freshness"}

EstimatorInvoked ==
    \E k \in 1..Len(inf_result.calls) : inf_result.calls[k] \in EstimatorCalls

\* Whether the call finished and the detector did not raise.
Detected == inf_result # None /\ inf_call.world.detector.raised = ""

ExpectedLabel(weights, cls) ==
    IF weights = "weights/custom_yolo.pt"
    THEN CASE cls = 0  -> <<"a","p","p","l","e">>
           [] cls = 52 -> <<"h","o","t","_","d","o","g">>
           [] OTHER    -> <<"f","o","o","d">>
    ELSE CASE cls = 0  -> <<"p","e","r","s","o","n">>
           [] cls = 46 -> <<"b","a","n","a","n","a">>
           [] cls = 52 -> <<"h","o","t","_","d","o","g">>
           [] OTHER    -> <<"f","o","o","d">>

ReturnedDetected ==
    /\ inf_result # None
    /\ inf_result.result # None
    /\ inf_result.result.detected

\* C5: the confidence of a detected=true result is det * 0.4 + fresh * 0.6
\* rounded to 4 decimals (the multiple of 0.0001 nearest to it), where det is
\* the winning box's confidence and fresh the confidence the active strategy
\* returned (the classifier's probability rounded to 4 decimals, or the
\* heuristic's value), and it lies in [0, 1].
C5_BlendedConfidence ==
    ReturnedDetected =>
        LET det == InfBoxes[Winner].conf
            fresh == inf_result.info.cls_conf
            c == inf_result.result.confidence
            exact == 4 * det + 6 * fresh       \* in ten-millionths
            wd == inf_call.world
        IN  /\ inf_result.info.det_conf = det
            /\ IF inf_call.bundle.freshness_classifier # None
               THEN /\ fresh % 100 = 0
                    /\ 2 * fresh - 2 * wd.predict.conf <= 100
                    /\ 2 * wd.predict.conf - 2 * fresh <= 100
               ELSE fresh = _heuristic_freshness(wd.stats.saturation,
                                                 wd.stats.value, wd.draw).conf
            /\ c % 100 = 0
            /\ 10 * c - exact <= 500
            /\ exact - 10 * c <= 500
            /\ 0 <= c /\ c <= 1000000

\* C5 witness: detection confidence 0.876543 and classifier probability
\* 0.333349 (rounded to 0.3333) blend to 0.5505972, returned as 0.5506.
C5_Witness ==
    /\ ReturnedDetected
    /\ inf_result.info = [det_conf |-> 876543, cls_conf |-> 333300]
    /\ inf_result.result.confidence = 550600

\* C10: the detected=true result carries the label and the box of the first
\* surviving box of highest confidence, the label lower-cased with
\* underscores for spaces, the box in detector order (x1, y1, x2, y2).
C10_SelectsFirstHighest ==
    ReturnedDetected =>
        LET S == Surviving
            w == Winner
        IN  /\ S # {}
            /\ inf_result.result.bbox = InfBoxes[w].xyxy
            /\ inf_result.result.food =
                 ExpectedLabel(inf_call.bundle.yolo.weights, InfBoxes[w].cls)

\* C10 witness: two surviving boxes shared the highest confidence, with
\* different classes and boxes, and the first one was returned.
C10_Witness ==
    /\ ReturnedDetected
    /\ \E j \in Surviving :
          /\ j > Winner
          /\ InfBoxes[j].conf = InfBoxes[Winner].conf
          /\ InfBoxes[j].xyxy # InfBoxes[Winner].xyxy
          /\ InfBoxes[j].cls # InfBoxes[Winner].cls
    /\ inf_result.result.bbox = InfBoxes[Winner].xyxy
    /\ inf_result.result.food = <<"h","o","t","_","d","o","g">>

\* The two match rules applied to a box of the call: its class id is one of
\* 46..61, or its class name equals a food label of the bundle when both are
\* lower-cased.
MatchesRule(box) ==
    \/ (46 <= box.cls /\ box.cls <= 61)
    \/ \E k \in 1..Len(inf_call.bundle.food_labels) :
          lower(names_get(inf_call.bundle.yolo.names, box.cls)) =
              lower(inf_call.bundle.food_labels[k])

\* The world of the call with the boxes matching neither rule taken out of
\* the detector's result.
WithoutDiscarded ==
    IF Len(inf_call.world.detector.results) = 0 THEN inf_call.world
    ELSE [inf_call.world EXCEPT !.detector.results =
             <<[boxes |-> SelectSeq(InfBoxes, MatchesRule)]>>]

\* C11: a box survives exactly when it matches one of the two rules: a
\* returned detection is a matching box of the highest confidence among the
\* matching boxes, a matching box of confidence 0.10 or more rules out the
\* not-detected result, a box matching neither rule is never the winner, and
\* the call's outcome (result, failure, crop) is the one it has with the
\* non-matching boxes removed.
C11_FoodFilter ==
    Detected =>
        LET M == {i \in 1..Len(InfBoxes) : MatchesRule(InfBoxes[i])}
            without == run_inference(inf_call.image, inf_call.bundle,
                                     WithoutDiscarded)
        IN  /\ ReturnedDetected =>
                 /\ \E i \in M :
                       /\ inf_result.result.bbox = InfBoxes[i].xyxy
                       /\ \A j \in M : InfBoxes[j].conf <= InfBoxes[i].conf
                 /\ \A i \in (1..Len(InfBoxes)) \ M :
                       inf_result.result.bbox # InfBoxes[i].xyxy
            /\ (\E i \in M : InfBoxes[i].conf >= 100000) =>
                 (inf_result.raised # "" \/ inf_result.result.detected)
            /\ (\A i \in M : InfBoxes[i].conf < 100000) =>
                 (inf_result.raised = "" /\ ~inf_result.result.detected)
            /\ inf_result.raised = without.raised
            /\ inf_result.result = without.result
            /\ inf_result.crop = without.crop

\* C11 witness: a box matching neither rule (COCO class 0, "person") had a
\* higher confidence than every matching box, and the detection returned is
\* the matching box of class 46.
C11_Witness ==
    /\ ReturnedDetected
    /\ LET M == {i \in 1..Len(InfBoxes) : MatchesRule(InfBoxes[i])}
       IN  /\ \E d \in (1..Len(InfBoxes)) \ M :
                 \A i \in M : InfBoxes[d].conf > InfBoxes[i].conf
           /\ \E i \in M : inf_result.result.bbox = InfBoxes[i].xyxy
    /\ inf_result.result.food = <<"b","a","n","a","n","a">>

-----------------------------------------------------------------------------
(* app/routers/predict.py                                                  *)

\* predict.py:29
SUPPORTED_CONTENT_TYPES == {"image/jpeg", "image/png", "image/webp", "image/bmp"}

\* predict.py:30
MAX_FILE_SIZE_BYTES == 10 * 1024 * 1024

\* Mutation of too_large: an upload of exactly the maximum is rejected.
too_large_inclusive(n) == n >= MAX_FILE_SIZE_BYTES

\* predict.py:74
too_large(n) == n > MAX_FILE_SIZE_BYTES

\* predict.py:95: "except RuntimeError" catches RuntimeError and its
\* subclasses only.
is_RuntimeError(exc) == exc \in {"RuntimeError", "NotImplementedError"}

\* A response of the handler.  status 0 stands for an exception that leaves
\* predict uncaught (exc names it); kb is the size a 422 reports.
Response(status, detail, kb, body, exc) ==
    [status |-> status, detail |-> detail, kb |-> kb, body |-> body,
     exc |-> exc]

NewRequest ==
    [pc |-> "new", content_type |-> "", size |-> 0, calls |-> <<>>,
     raised |-> "", logged |-> FALSE, response |-> None, alone |-> None]

\* predict.py:33-38, 102-108: the response model; pydantic rejects a
\* confidence outside [0, 1].
PredictionResponse(result) ==
    IF 0 <= result.confidence /\ result.confidence <= ONE
    THEN Response(200, "", 0,
                  [food |-> result.food, freshness |-> result.freshness,
                   confidence |-> result.confidence,
                   detected |-> result.detected], "")
    ELSE Response(0, "", 0, None, "ValidationError")

\* predict.py:74-108: what predict does once file.read() has returned size
\* bytes: [calls, raised, logged, response].  decodable says whether
\* bytes_to_pil accepts the bytes; cached is loader._bundle; world is what
\* the models do.
handle_upload(size, decodable, cached, world) ==
    IF too_large(size)                                          \* 74-78
    THEN [calls |-> <<>>, raised |-> "", logged |-> FALSE,
          response |-> Response(422, "File too large", size \div 1024,
                                None, "")]
    ELSE IF ~decodable                                          \* 81-87
    THEN [calls |-> <<"bytes_to_pil">>, raised |-> "", logged |-> FALSE,
          response |-> Response(400, "Cannot decode image", 0, None, "")]
    ELSE
    LET got == get_bundle(cached) IN                            \* 91
    IF got.raised # ""
    THEN [calls |-> <<"bytes_to_pil", "get_bundle">>, raised |-> "",
          logged |-> TRUE,
          response |-> Response(500,
                          "Model inference failed. Please try again.",
                          0, None, "")]
    ELSE
    LET out == run_inference(InferImage, got.ret, world) IN     \* 93
    IF out.raised = ""
    THEN [calls |-> <<"bytes_to_pil", "get_bundle", "run_inference">>,
          raised |-> "", logged |-> FALSE,
          response |-> PredictionResponse(out.result)]          \* 102-108
    ELSE IF is_RuntimeError(out.raised)                         \* 95-100
    THEN [calls |-> <<"bytes_to_pil", "get_bundle", "run_inference">>,
          raised |-> out.raised, logged |-> TRUE,
          response |-> Response(500,
                          "Model inference failed. Please try again.",
                          0, None, "")]
    ELSE [calls |-> <<"bytes_to_pil", "get_bundle", "run_inference">>,
          raised |-> out.raised, logged |-> FALSE,
          response |-> Response(0, "", 0, None, out.raised)]

\* Mutation of bundle_after_request: after a failed inference the handler
\* empties the classifier slot of the shared bundle.
bundle_after_request_fallback(bundle, h) ==
    IF h.raised # "" /\ bundle # None
    THEN [bundle EXCEPT !.freshness_classifier = None]
    ELSE bundle

\* predict.py:89-108, pipeline.py:93-174: the cached bundle once a request
\* has been handled with outcome h.  Neither predict nor run_inference nor
\* _classify_freshness assigns loader._bundle or an attribute of the bundle;
\* they only read yolo, yolo.names, food_labels, freshness_classifier, device
\* and freshness_labels.
bundle_after_request(bundle, h) == bundle

\* Content types and upload sizes of the requests.
ContentTypes == {"image/jpeg", "text/plain"}

SizeSamples ==
    {50 * 1024, MAX_FILE_SIZE_BYTES - 1, MAX_FILE_SIZE_BYTES,
     MAX_FILE_SIZE_BYTES + 1, 11 * 1024 * 1024}

\* What the detector does during a request.
RequestDetectorOutcomes ==
    { [raised |-> "RuntimeError", results |-> <<>>],
      [raised |-> "ValueError", results |-> <<>>],
      [raised |-> "", results |-> <<>>],
      [raised |-> "",
       results |-> <<[boxes |-> <<[cls |-> 46, conf |-> 876543,
                                   xyxy |-> BoxAt(1)]>>]>>] }

\* predict.py:62-73: the content type is validated, then the handler awaits
\* file.read().
PredictReceive(r, content_type) ==
    /\ requests[r].pc = "new"
    /\ requests' = [requests EXCEPT ![r] =
          IF content_type \notin SUPPORTED_CONTENT_TYPES
          THEN [@ EXCEPT !.pc = "done", !.content_type = content_type,
                         !.response = Response(400,
                                         "Unsupported content type", 0,
                                         None, ""),
                         !.alone = Response(400,
                                         "Unsupported content type", 0,
                                         None, "")]
          ELSE [@ EXCEPT !.pc = "reading", !.content_type = content_type]]
    /\ UNCHANGED <<loaderVars, cropVars, heurVars, inferVars>>

\* predict.py:73-108: file.read() returns and the handler runs to its end
\* without yielding (bytes_to_pil, get_bundle and run_inference are plain
\* calls).  alone records the response the same upload gets from a server
\* that has handled no other request since startup (firstBundle is the
\* bundle startup cached).
PredictHandle(r, size, decodable, world) ==
    /\ requests[r].pc = "reading"
    /\ LET h == handle_upload(size, decodable, _bundle, world) IN
       /\ requests' = [requests EXCEPT ![r] =
             [@ EXCEPT !.pc = "done", !.size = size,
                       !.calls = <<"file.read">> \o h.calls,
                       !.raised = h.raised, !.logged = h.logged,
                       !.response = h.response,
                       !.alone = handle_upload(size, decodable, firstBundle,
                                               world).response]]
       /\ _bundle' = bundle_after_request(_bundle, h)
    /\ UNCHANGED <<cuda_available, pc, args, local, last, yoloLoads,
                   clsLoads, bundlesBuilt, firstBundle>>
    /\ UNCHANGED <<cropVars, heurVars, inferVars>>

\* The server after lifespan (main.py:39-53): load_models has returned and
\* cached the bundle; no request has arrived.
InitPredict ==
    /\ \E a \in LoadArgs :
          /\ _bundle = build_bundle(a, FALSE)
          /\ firstBundle = _bundle
          /\ last = [t \in Threads |->
                       IF t = 1
                       THEN [op |-> "load_models", args |-> a,
                             initialised |-> FALSE, raised |-> "",
                             ret |-> _bundle, cached |-> _bundle]
                       ELSE NoCall]
    /\ cuda_available = FALSE
    /\ pc = [t \in Threads |-> "idle"]
    /\ args = [t \in Threads |-> <<>>]
    /\ local = [t \in Threads |-> NoLocal]
    /\ yoloLoads = 1 /\ clsLoads = 1 /\ bundlesBuilt = 1
    /\ crop_call = None /\ crop_result = None
    /\ heur_call = None /\ heur_result = None
    /\ inf_call = None /\ inf_result = None
    /\ requests = [r \in Requests |-> NewRequest]

NextPredict ==
    \E r \in Requests :
        \/ \E ct \in ContentTypes : PredictReceive(r, ct)
        \/ \E size \in SizeSamples, decodable \in BOOLEAN :
             \E wd \in WorldsOver(_bundle, RequestDetectorOutcomes) :
                PredictHandle(r, size, decodable, wd)

SpecPredict == InitPredict /\ [][NextPredict]_vars

\* C7 (under SpecPredict): a request with an accepted content type whose
\* upload exceeds 10 MB is answered 422 with the size in KB and made no
\* bytes_to_pil, get_bundle or run_inference call; an upload of exactly 10 MB
\* is not answered 422 and is decoded.
C7_TooLargeRejected ==
    \A r \in Requests :
        (requests[r].pc = "done"
         /\ requests[r].content_type \in
              {"image/jpeg", "image/png", "image/webp", "image/bmp"}) =>
            /\ requests[r].size > 10485760 =>
                 /\ requests[r].response.status = 422
                 /\ requests[r].response.detail = "File too large"
                 /\ requests[r].response.kb = requests[r].size \div 1024
                 /\ requests[r].calls = <<"file.read">>
            /\ requests[r].size = 10485760 =>
                 /\ requests[r].response.status # 422
                 /\ Len(requests[r].calls) >= 2
                 /\ requests[r].calls[2] = "bytes_to_pil"

\* C7 witness: an 11 MB JPEG upload was answered 422 reporting 11264 KB.
C7_Witness ==
    \E r \in Requests :
        /\ requests[r].pc = "done"
        /\ requests[r].content_type = "image/jpeg"
        /\ requests[r].size = 11534336
        /\ requests[r].response.status = 422
        /\ requests[r].response.kb = 11264

\* C8 (under SpecPredict): every failure raised inside run_inference, of
\* whatever type, is answered with status 500 and the generic message and is
\* logged; none leaves predict uncaught.
C8_FailuresTranslated ==
    \A r \in Requests :
        (requests[r].pc = "done" /\ requests[r].raised # "") =>
            /\ requests[r].response.status = 500
            /\ requests[r].response.detail =
                 "Model inference failed. Please try again."
            /\ requests[r].response.exc = ""
            /\ requests[r].logged

-----------------------------------------------------------------------------
(* Startup followed by inference: app/main.py lifespan calls load_models,   *)
(* then run_inference runs on the bundle get_bundle returns.               *)

\* What the freshness weights path of the configuration may name: a file of
\* every kind, or no file.
ClassifierPaths ==
    {"weights/freshness_classifier.pt", "weights/freshness_model.pt",
     "weights/plain_module.pt", "weights/no_state_dict.pt",
     "weights/incompatible.pt", "weights/corrupt.pt", "weights/missing.pt"}

StartupArgs ==
    LoadArgs \cup {<<"weights/yolov8n.pt", p, "cpu">> : p \in ClassifierPaths}

\* predict.py:91-93: get_bundle() and run_inference(image, bundle), once no
\* load_models call is in progress.
InferCached ==
    /\ NoCallInProgress
    /\ LET got == get_bundle(_bundle) IN
       /\ got.raised = ""
       /\ \E wd \in WorldsOver(got.ret, RequestDetectorOutcomes) :
             /\ inf_call' = [image |-> InferImage, bundle |-> got.ret,
                             world |-> wd]
             /\ inf_result' = run_inference(InferImage, got.ret, wd)
    /\ UNCHANGED <<loaderVars, cropVars, heurVars, requests>>

\* main.py:47-51: the startup thread calls load_models (a later call finds the
\* cache filled); inference runs between its calls.
NextStartup ==
    \/ \E a \in StartupArgs : LoadCall(1, a)
    \/ LoadStep(1)
    \/ InferCached

SpecStartup == Init /\ [][NextStartup]_vars

\* The classifier weights path names no file, or a file whose loading raises.
ClassifierUnloadable(path) ==
    FileKind(path) \in {"absent", "corrupt", "incompatible",
                        "dict_no_state_dict"}

\* The loading call of load_models has completed on thread 1 and is its last.
FirstLoadCompleted ==
    /\ last[1].op = "load_models"
    /\ ~last[1].initialised

\* C12 (under SpecStartup): no load_models call fails; the loading call whose
\* classifier path is missing or unloadable returns and caches a bundle with
\* an empty classifier slot; run_inference on a bundle with an empty slot
\* calls the heuristic and never the classifier, and on a bundle with a
\* populated slot calls the classifier and never the heuristic.
C12_ClassifierFallback ==
    /\ last[1].op = "load_models" => last[1].raised = ""
    /\ (FirstLoadCompleted /\ ClassifierUnloadable(last[1].args[2])) =>
          /\ last[1].ret # None
          /\ last[1].ret.freshness_classifier = None
          /\ _bundle = last[1].ret
          /\ inf_result # None =>
                \A k \in 1..Len(inf_result.calls) :
                    inf_result.calls[k] \notin {"to_freshness_tensor", "predict"}
    /\ inf_result # None =>
          LET calls == {inf_result.calls[k] : k \in 1..Len(inf_result.calls)}
          IN  /\ inf_call.bundle = _bundle
              /\ IF inf_call.bundle.freshness_classifier = None
                 THEN /\ calls \cap {"to_freshness_tensor", "predict"} = {}
                      /\ "crop_bbox" \in calls =>
                            "_heuristic_freshness" \in calls
                 ELSE /\ "_heuristic_freshness" \notin calls
                      /\ "crop_bbox" \in calls =>
                            "to_freshness_tensor" \in calls

\* C12 witness: load_models was given a corrupt classifier file, returned a
\* bundle with an empty slot, and a detection on that bundle was classified
\* by the heuristic.
C12_Witness ==
    /\ FirstLoadCompleted
    /\ last[1].args[2] = "weights/corrupt.pt"
    /\ last[1].raised = ""
    /\ _bundle.freshness_classifier = None
    /\ inf_result # None
    /\ inf_result.result # None
    /\ inf_result.result.detected
    /\ inf_result.calls = <<"yolo", "crop_bbox", "_heuristic_freshness">>

====
